---- MODULE Spec2Model ----
(***************************************************************************)
(* Model of data_preparing/preprocessing/_process_vqa_data.py: the two     *)
(* preprocessing passes process_vqa_questions and process_vqa_answers.     *)
(* One behaviour is one call of one of the two functions on one input.     *)
(***************************************************************************)
EXTENDS Integers, Sequences, FiniteSets, TLC

\* ---------------------------------------------------------------- bounds
MaxQuestions == 3
MaxChunkSize == 2
MaxAnnotations == 2

\* ---------------------------------------------------------------- inputs
Splits == {"train", "val", "test"}
Tokens == {"net", "mesh"}
PadToken == "<pad>"
ImageIds == {1, 2}
Sentences == {<<"net">>, <<"mesh", "net", "mesh">>}
QLens == {2}
RecognizedTypes == {"yes/no", "number", "other"}
AnswerTypeValues == RecognizedTypes \cup {"unknown"}
AnswerLists ==
    {<<>>, <<"mesh">>, <<"net", "mesh">>, <<"mesh", "net">>, <<"net", "net", "mesh">>}

SeqsUpTo(S, n) == UNION {[1..k -> S] : k \in 0..n}

\* vocabularies handed to the two functions: token -> id as the codec resolves it
\* (a vocabulary may resolve several tokens to one shared id, e.g. its unknown id)
VocabDicts ==
    { [t \in Tokens \cup {PadToken} |->
          IF t = PadToken THEN 0 ELSE IF t = "net" THEN 3 ELSE 4],
      [t \in Tokens \cup {PadToken} |-> IF t = PadToken THEN 0 ELSE 1] }
\* answer dictionaries: only the answers eligible as labels are keys
AnsDicts ==
    { [t \in {"net"} |-> 7],
      [t \in Tokens |-> IF t = "net" THEN 7 ELSE 8],
      [t \in Tokens |-> IF t = "net" THEN 3 ELSE 4] }

QuestionRecords == [image_id : ImageIds, question : Sentences]
AnnotationRecords == [answers : AnswerLists, answer_type : AnswerTypeValues]

VARIABLES
    fn,                  \* which of the two functions this run calls
    dataset_type, vocab_dict, ans_dict, q_len,     \* arguments
    consts,              \* configs.consts: the two chunk sizes
    feature_store, graph_store,                    \* image ids that have an .npz
    q_json, a_json,      \* the loaded "questions" / "annotations" lists
    pc, err,             \* control position and the exception that ended the run
    pos,                 \* items the enumerate() iterator has yielded
    i,                   \* loop variable of process_vqa_questions: <<>> unbound, <<k>> bound
    q_data, current_chunk_index,
    chunks,              \* storage: chunk index -> saved list
    a_data, answer_types,
    answers_file, answer_types_file  \* storage: <<>> not written, <<content>> written

vars == <<fn, dataset_type, vocab_dict, ans_dict, q_len, consts, feature_store,
          graph_store, q_json, a_json, pc, err, pos, i, q_data,
          current_chunk_index, chunks, a_data, answer_types, answers_file,
          answer_types_file>>

inputs == <<fn, dataset_type, vocab_dict, ans_dict, q_len, consts, feature_store,
            graph_store, q_json, a_json>>
qstate == <<i, q_data, current_chunk_index, chunks>>
astate == <<a_data, answer_types, answers_file, answer_types_file>>

\* ------------------------------------------------ process_vqa_questions
chunk_size ==
    IF dataset_type = "train" THEN consts.COCO_TRAIN2014_QA_CHUNK_SIZE
    ELSE consts.COCO_VAL2014_QA_CHUNK_SIZE

\* np.load(paths.d_COCO_FEATURE / filename)["x"], np.load(paths.d_COCO_GRAPH / filename)["graph"]
LookupFails(q) ==
    q.image_id \notin feature_store \/ q.image_id \notin graph_store
image_data(q) == <<"x", q.image_id>>
graph_data(q) == <<"graph", q.image_id>>

\* utils.get_tokens_and_ids: the ids of the sentence's tokens
get_tokens_and_ids(sentence, vd) == [k \in 1..Len(sentence) |-> vd[sentence[k]]]
\* utils.padding_ids: pad with the padding id or truncate to max_len
padding_ids(ids, max_len, vd) ==
    [k \in 1..max_len |-> IF k <= Len(ids) THEN ids[k] ELSE vd[PadToken]]

ProcessedQuestion(q) ==
    [image_feature |-> image_data(q),
     image_graph |-> graph_data(q),
     q_token_ids |-> padding_ids(get_tokens_and_ids(q.question, vocab_dict), q_len, vocab_dict)]

FlushDueOffByOne(k) == k % chunk_size = 0
FlushDue(k) == (k + 1) % chunk_size = 0
TailDueAlways(k) == TRUE
TailDue(k) == (k + 1) % chunk_size # 0
\* np.save(result_save_path, q_data): one file per chunk index
SaveChunk(store, index, data) ==
    [n \in DOMAIN store \cup {index} |-> IF n = index THEN data ELSE store[n]]
KeptBuffer(buf) == buf
ClearedBuffer(buf) == <<>>

\* one iteration whose feature or graph lookup raises
QLookupFail ==
    /\ fn = "process_vqa_questions" /\ pc = "loop" /\ pos < Len(q_json)
    /\ LookupFails(q_json[pos + 1])
    /\ pos' = pos + 1
    /\ i' = <<pos>>
    /\ pc' = "error" /\ err' = "FileNotFoundError"
    /\ UNCHANGED <<inputs, q_data, current_chunk_index, chunks, astate>>

\* one full iteration of the for loop
QIterate ==
    /\ fn = "process_vqa_questions" /\ pc = "loop" /\ pos < Len(q_json)
    /\ ~LookupFails(q_json[pos + 1])
    /\ pos' = pos + 1
    /\ i' = <<pos>>
    /\ LET buf == Append(q_data, ProcessedQuestion(q_json[pos + 1])) IN
         IF FlushDue(pos)
         THEN /\ chunks' = SaveChunk(chunks, current_chunk_index, buf)
              /\ current_chunk_index' = current_chunk_index + 1
              /\ q_data' = ClearedBuffer(buf)
         ELSE /\ q_data' = buf
              /\ UNCHANGED <<chunks, current_chunk_index>>
    /\ UNCHANGED <<inputs, pc, err, astate>>

\* the statement after the loop
QAfterLoop ==
    /\ fn = "process_vqa_questions" /\ pc = "loop" /\ pos = Len(q_json)
    /\ IF i = <<>>
       THEN /\ pc' = "error" /\ err' = "UnboundLocalError"
            /\ UNCHANGED chunks
       ELSE /\ pc' = "done" /\ err' = err
            /\ chunks' = IF TailDue(i[1])
                         THEN SaveChunk(chunks, current_chunk_index, q_data)
                         ELSE chunks
    /\ UNCHANGED <<inputs, pos, i, q_data, current_chunk_index, astate>>

\* -------------------------------------------------- process_vqa_answers
RECURSIVE FirstSeen(_)
\* key order of Counter(answers): distinct answers in order of first occurrence
FirstSeen(answers) ==
    IF answers = <<>> THEN <<>>
    ELSE LET front == FirstSeen(SubSeq(answers, 1, Len(answers) - 1))
             last == answers[Len(answers)]
         IN IF \E k \in 1..Len(front) : front[k] = last THEN front
            ELSE Append(front, last)
\* Counter(answers)[t]
Count(answers, t) == Cardinality({k \in 1..Len(answers) : answers[k] = t})

InAnsDict(t) == t \in DOMAIN ans_dict
\* dict(filter(lambda x: x[0] in ans_dict, cnt.items())): keys, in order
filtered_answers(answers) == SelectSeq(FirstSeen(answers), InAnsDict)

\* utils.tokens_to_ids: the id of each token of the list under the given vocabulary
tokens_to_ids(token_list, vd) == [k \in 1..Len(token_list) |-> vd[token_list[k]]]

\* dict(zip(keys, values)): a later pair with an equal key replaces the earlier one
DictZip(ks, vs) ==
    [x \in {ks[k] : k \in 1..Len(ks)} |->
        vs[CHOOSE k \in 1..Len(ks) : ks[k] = x /\ \A j \in (k + 1)..Len(ks) : ks[j] # x]]

ans_cnt_dict(row) ==
    LET keys == filtered_answers(row.answers)
        values == [k \in 1..Len(keys) |-> Count(row.answers, keys[k])]
    IN DictZip(tokens_to_ids(keys, vocab_dict), values)

RecordAnswerSkipEmpty(data, d) == IF DOMAIN d = {} THEN data ELSE Append(data, d)
RecordAnswer(data, d) == Append(data, d)

BucketAppendSetDefault(types, key, idx) ==
    [ok |-> TRUE,
     types |-> [t \in DOMAIN types \cup {key} |->
                   IF t = key
                   THEN Append(IF key \in DOMAIN types THEN types[key] ELSE <<>>, idx)
                   ELSE types[t]]]
BucketAppendFront(types, key, idx) ==
    IF key \in DOMAIN types
    THEN [ok |-> TRUE, types |-> [types EXCEPT ![key] = <<idx>> \o @]]
    ELSE [ok |-> FALSE, types |-> types]
\* answer_types[row["answer_type"]].append(idx); a missing key raises KeyError
BucketAppend(types, key, idx) ==
    IF key \in DOMAIN types
    THEN [ok |-> TRUE, types |-> [types EXCEPT ![key] = Append(@, idx)]]
    ELSE [ok |-> FALSE, types |-> types]

SavesAnswerTypesUnlessTrain(dt) == dt # "train"
SavesAnswerTypes(dt) == dt = "val"

\* one full iteration of the for loop
AIterate ==
    /\ fn = "process_vqa_answers" /\ pc = "loop" /\ pos < Len(a_json)
    /\ LET row == a_json[pos + 1]
           res == BucketAppend(answer_types, row.answer_type, pos)
       IN /\ res.ok
          /\ a_data' = RecordAnswer(a_data, ans_cnt_dict(row))
          /\ answer_types' = res.types
    /\ pos' = pos + 1
    /\ UNCHANGED <<inputs, pc, err, qstate, answers_file, answer_types_file>>

\* one iteration whose answer_type is no key of answer_types
AKeyError ==
    /\ fn = "process_vqa_answers" /\ pc = "loop" /\ pos < Len(a_json)
    /\ LET row == a_json[pos + 1]
           res == BucketAppend(answer_types, row.answer_type, pos)
       IN /\ ~res.ok
          /\ a_data' = RecordAnswer(a_data, ans_cnt_dict(row))
          /\ answer_types' = res.types
    /\ pos' = pos + 1
    /\ pc' = "error" /\ err' = "KeyError"
    /\ UNCHANGED <<inputs, qstate, answers_file, answer_types_file>>

\* the statements after the loop: save the answers and, for val, the answer types
ASave ==
    /\ fn = "process_vqa_answers" /\ pc = "loop" /\ pos = Len(a_json)
    /\ answers_file' = <<a_data>>
    /\ answer_types_file' =
          IF SavesAnswerTypes(dataset_type) THEN <<answer_types>> ELSE <<>>
    /\ pc' = "done"
    /\ UNCHANGED <<inputs, err, pos, qstate, a_data, answer_types>>

\* --------------------------------------------------------------- initial
InitCommon ==
    /\ dataset_type \in Splits
    /\ pc = "loop" /\ err = "none" /\ pos = 0
    /\ i = <<>> /\ q_data = <<>> /\ current_chunk_index = 0 /\ chunks = <<>>
    /\ a_data = <<>>
    /\ answer_types = [t \in RecognizedTypes |-> <<>>]
    /\ answers_file = <<>> /\ answer_types_file = <<>>

InitQ ==
    /\ fn = "process_vqa_questions"
    /\ vocab_dict = CHOOSE vd \in VocabDicts : vd["net"] # vd["mesh"]
    /\ ans_dict = <<>>
    /\ q_len \in QLens
    /\ consts \in [COCO_TRAIN2014_QA_CHUNK_SIZE : 1..MaxChunkSize,
                   COCO_VAL2014_QA_CHUNK_SIZE : 1..MaxChunkSize]
    /\ feature_store \in SUBSET ImageIds
    /\ graph_store \in SUBSET ImageIds
    /\ q_json \in SeqsUpTo(QuestionRecords, MaxQuestions)
    /\ a_json = <<>>
    /\ InitCommon

InitA ==
    /\ fn = "process_vqa_answers"
    /\ vocab_dict \in VocabDicts
    /\ ans_dict \in AnsDicts
    /\ q_len \in QLens
    /\ consts = [COCO_TRAIN2014_QA_CHUNK_SIZE |-> 1, COCO_VAL2014_QA_CHUNK_SIZE |-> 1]
    /\ feature_store = {} /\ graph_store = {}
    /\ q_json = <<>>
    /\ a_json \in SeqsUpTo(AnnotationRecords, MaxAnnotations)
    /\ InitCommon

Init == InitQ \/ InitA

Next ==
    \/ QLookupFail
    \/ QIterate
    \/ QAfterLoop
    \/ AIterate
    \/ AKeyError
    \/ ASave

Spec == Init /\ [][Next]_vars
\* ================================================================ claims
IsQ == fn = "process_vqa_questions"
IsA == fn = "process_vqa_answers"
CeilDiv(m, c) == (m + c - 1) \div c
RECURSIVE ConcatChunks(_)
\* chunks 0 .. n-1 of the storage, concatenated in index order
ConcatChunks(n) == IF n = 0 THEN <<>> ELSE ConcatChunks(n - 1) \o chunks[n - 1]
Expected(lo, hi) == [k \in 1..(hi - lo + 1) |-> ProcessedQuestion(q_json[lo + k - 1])]
RECURSIVE SumValues(_)
SumValues(d) ==
    IF DOMAIN d = {} THEN 0
    ELSE LET x == CHOOSE y \in DOMAIN d : TRUE
         IN d[x] + SumValues([y \in DOMAIN d \ {x} |-> d[y]])
\* the run went through the whole question list (no lookup failed)
QConsumedAll == IsQ /\ pc # "loop" /\ err # "FileNotFoundError"

\* C1: a run over M questions with chunk size C leaves exactly ceil(M / C) chunks,
\* numbered 0 .. ceil(M / C) - 1, none empty, whose concatenation in index order
\* is the processed questions in file order.
C1_ChunksReproduceQuestions ==
    QConsumedAll =>
        LET n == CeilDiv(Len(q_json), chunk_size) IN
        /\ DOMAIN chunks = 0..(n - 1)
        /\ \A c \in DOMAIN chunks : chunks[c] # <<>>
        /\ ConcatChunks(n) = Expected(1, Len(q_json))
C1_Witness ==
    /\ IsQ /\ pc = "done" /\ chunk_size >= 2
    /\ Len(q_json) = 2 * chunk_size - 1
    /\ DOMAIN chunks = {0, 1}
C1_WitnessExactMultiple ==
    /\ IsQ /\ pc = "done" /\ Len(q_json) = 2 * chunk_size /\ DOMAIN chunks = {0, 1}

\* C2: the values of every answer distribution sum to at most the number of raw
\* answers of its annotation, with equality exactly when every raw answer is a key
\* of ans_dict.
C2_SumEqualsIffAllInVocabulary ==
    IsA => \A k \in 1..Len(a_data) :
        LET answers == a_json[k].answers IN
        /\ SumValues(a_data[k]) <= Len(answers)
        /\ (SumValues(a_data[k]) = Len(answers))
              <=> (\A j \in 1..Len(answers) : answers[j] \in DOMAIN ans_dict)

\* C3: every key of every answer distribution is the id ans_dict assigns to an
\* in-vocabulary answer of that annotation; [net, net, mesh] with net -> 7 and no
\* mesh gives {7: 2}.
C3_KeysAreAnswerVocabularyIds ==
    IsA => \A k \in 1..Len(a_data) :
        LET answers == a_json[k].answers IN
        /\ \A key \in DOMAIN a_data[k] :
              \E j \in 1..Len(answers) :
                  answers[j] \in DOMAIN ans_dict /\ ans_dict[answers[j]] = key
        /\ (answers = <<"net", "net", "mesh">> /\ ans_dict = [t \in {"net"} |-> 7])
              => a_data[k] = [x \in {7} |-> 2]

\* C4: once an annotation with an unrecognized answer_type has been reached, the run
\* is in the error state at that annotation, answer_types has just the three
\* recognized keys, and neither artifact has been written.
BadTypeReached ==
    \E k \in 1..pos : a_json[k].answer_type \notin RecognizedTypes
C4_UnknownAnswerTypeAborts ==
    IsA =>
        /\ DOMAIN answer_types = RecognizedTypes
        /\ BadTypeReached =>
              /\ pc = "error" /\ err = "KeyError"
              /\ a_json[pos].answer_type \notin RecognizedTypes
              /\ \A k \in 1..(pos - 1) : a_json[k].answer_type \in RecognizedTypes
              /\ answers_file = <<>> /\ answer_types_file = <<>>
C4_Witness ==
    IsA /\ pos = 2 /\ a_json[2].answer_type = "unknown" /\ pc = "error"

\* C5: on an empty question list the run ends normally with no chunk written.
C5_EmptyInputTerminatesNormally ==
    (IsQ /\ Len(q_json) = 0 /\ pc # "loop") => (pc = "done" /\ DOMAIN chunks = {})

\* C6: when the lookup fails at 0-based position k the run is in the error state and
\* storage holds exactly the floor(k / chunk_size) full chunks, each the chunk_size
\* processed questions of its range, in order; the buffered rest is not written.
C6_AbortLeavesOnlyFullChunks ==
    (IsQ /\ err = "FileNotFoundError") =>
        LET k == i[1] IN
        /\ pc = "error"
        /\ LookupFails(q_json[k + 1])
        /\ DOMAIN chunks = 0..((k \div chunk_size) - 1)
        /\ \A n \in DOMAIN chunks :
              chunks[n] = Expected(n * chunk_size + 1, (n + 1) * chunk_size)
C6_Witness ==
    /\ IsQ /\ err = "FileNotFoundError" /\ chunk_size = 2 /\ i = <<2>>
    /\ DOMAIN chunks = {0}

\* C7: after a successful run the answers artifact is written, and the answer-type
\* artifact is written exactly when the split is "val".
C7_AnswerTypesOnlyForVal ==
    (IsA /\ pc = "done") =>
        /\ answers_file # <<>>
        /\ (answer_types_file # <<>>) <=> (dataset_type = "val")
        /\ (dataset_type = "val") => answer_types_file = <<answer_types>>
C7_Witness ==
    IsA /\ pc = "done" /\ dataset_type = "val" /\ Len(a_json) = 2
        /\ answer_types_file # <<>>
C7_WitnessTest ==
    IsA /\ pc = "done" /\ dataset_type = "test" /\ answer_types_file = <<>>

\* C8: after a successful run over N annotations the saved answers list has N entries
\* and entry k is the distribution of annotation k, empty distributions included.
C8_AnswersIndexAligned ==
    (IsA /\ pc = "done") =>
        /\ Len(answers_file) = 1
        /\ answers_file[1] = [k \in 1..Len(a_json) |-> ans_cnt_dict(a_json[k])]
C8_Witness ==
    /\ IsA /\ pc = "done" /\ Len(a_json) = 2 /\ Len(answers_file) = 1
    /\ a_json[1].answers # <<>> /\ DOMAIN answers_file[1][1] = {}
    /\ DOMAIN answers_file[1][2] # {}

\* C9: while every processed annotation had a recognized answer_type, each processed
\* position 0 .. pos-1 is in the bucket of its annotation's answer_type and in no
\* other, exactly once, and every bucket is strictly increasing.
C9_BucketsPartitionPositions ==
    (IsA /\ err = "none") =>
        /\ \A p \in 0..(pos - 1) : \A t \in DOMAIN answer_types :
              Cardinality({j \in 1..Len(answer_types[t]) : answer_types[t][j] = p})
                  = IF a_json[p + 1].answer_type = t THEN 1 ELSE 0
        /\ \A t \in DOMAIN answer_types :
              /\ \A j \in 1..Len(answer_types[t]) : answer_types[t][j] \in 0..(pos - 1)
              /\ \A j \in 1..(Len(answer_types[t]) - 1) :
                    answer_types[t][j] < answer_types[t][j + 1]
C9_Witness ==
    /\ IsA /\ pos = 2 /\ err = "none"
    /\ answer_types["other"] = <<0, 1>>
C9_WitnessTwoBuckets ==
    /\ IsA /\ pos = 2 /\ answer_types["number"] = <<0>> /\ answer_types["yes/no"] = <<1>>

\* C10 as stated: the buffer never exceeds chunk_size records and is empty right
\* after each flush; every chunk but the last holds chunk_size records (those of
\* its range) and the last holds 1 .. chunk_size.
ChunkShape ==
    \A n \in DOMAIN chunks :
        /\ Len(chunks[n]) \in 1..chunk_size
        /\ (n + 1) \in DOMAIN chunks => Len(chunks[n]) = chunk_size
        /\ chunks[n] = Expected(n * chunk_size + 1, n * chunk_size + Len(chunks[n]))
BufferBounded ==
    /\ Len(q_data) + 1 <= chunk_size
    /\ q_data = Expected(pos - Len(q_data) + 1, pos) \/ err = "FileNotFoundError"
C10_BufferEmptyAfterEveryFlush ==
    /\ [](IsQ => (BufferBounded /\ ChunkShape))
    /\ [][(IsQ /\ chunks' # chunks) => q_data' = <<>>]_vars

\* C10 amended: as above, but the buffer is emptied only by the flushes inside the
\* loop; the flush after the loop leaves the buffered records in place.
C10_BufferEmptyAfterLoopFlush ==
    /\ [](IsQ => (BufferBounded /\ ChunkShape))
    /\ [][(IsQ /\ chunks' # chunks) =>
            IF pos' # pos THEN q_data' = <<>> /\ Len(chunks'[current_chunk_index]) = chunk_size
            ELSE q_data' = q_data /\ chunks'[current_chunk_index] = q_data]_vars
C10_Witness ==
    /\ IsQ /\ pc = "done" /\ chunk_size = 2 /\ DOMAIN chunks = {0, 1}
    /\ q_data # <<>> /\ chunks[1] = q_data
====
